---- MODULE Spec2Model ----
(***************************************************************************)
(* edge_dfs of networkx/algorithms/traversal/edgedfs.py: a depth-first     *)
(* traversal of the edges of a graph, written as a generator.  The model   *)
(* has one action per step of the generator: the code that runs before the *)
(* first root, the "for" statement, one iteration of the "while" loop (one *)
(* action per way the iteration can go) and the resumption after a yield.  *)
(*                                                                         *)
(* Python tuples are TLA+ tuples, with Python's 0-based edge[i] written    *)
(* edge[i+1].  An edge is <<u, v>>, <<u, v, key>>, <<u, v, direction>> or  *)
(* <<u, v, key, direction>>.                                               *)
(***************************************************************************)
EXTENDS Integers, Sequences, FiniteSets, TLC

\* Bounds of the model: the graph has at most NumNodes nodes 0..NumNodes-1,
\* it is built from at most MaxEdges add_edge calls, and an explicit source
\* list has at most MaxSrc entries.
NumNodes == 3
MaxEdges == 2
MaxSrc == 1

\* class Direction(enum.Enum)
Forward == 1
Reverse == 2

VARIABLES
    G,              \* the graph: [directed, multigraph, n, el]
    source,         \* the source argument: [none |-> TRUE] or a list of nodes
    orientation,    \* "original", "reverse" or "ignore"
    pc,             \* where the generator stands
    nodes,          \* list(G.nbunch_iter(source))
    idx,            \* how many entries of nodes the for statement has taken
    stack,
    current_node,
    visited_edges,
    visited_nodes,
    edges,          \* the pending list of every node (a defaultdict(list))
    out,            \* the edges handed to the consumer so far, in order
    from,           \* from[i]: the node that was explored when out[i] was yielded
    other           \* the frame of a second call made with the same arguments

vars == <<G, source, orientation, pc, nodes, idx, stack, current_node,
          visited_edges, visited_nodes, edges, out, from, other>>

-----------------------------------------------------------------------------
\* Sequences

Last(s) == s[Len(s)]

Front(s) == SubSeq(s, 1, Len(s) - 1)

\* reverse() left out: the list as it is
Rev_none(s) == s

\* list.reverse()
Rev(s) == [i \in 1..Len(s) |-> s[Len(s) + 1 - i]]

Range(s) == {s[i] : i \in 1..Len(s)}

\* The distinct entries of s, in the order of their first occurrence: the
\* order in which the keys of a dict were inserted.
RECURSIVE Uniq(_)
Uniq(s) ==
    IF s = <<>> THEN <<>>
    ELSE LET r == Uniq(Front(s))
         IN  IF Last(s) \in Range(r) THEN r ELSE Append(r, Last(s))

\* The concatenation of a sequence of sequences.
RECURSIVE Flat(_)
Flat(ss) == IF ss = <<>> THEN <<>> ELSE Flat(Front(ss)) \o Last(ss)

-----------------------------------------------------------------------------
\* The host graph.  G.el is the list of add_edge(u, v) calls that built it,
\* G.n the number of its nodes; a node, a neighbour and a key are enumerated
\* in the order in which they were added.

NodeList(g) == [i \in 1..g.n |-> i - 1]

\* G.succ[u], G.pred[v] and (undirected) G.adj[u], as ordered lists of nodes
succ(g, u) ==
    LET es == SelectSeq(g.el, LAMBDA e : e[1] = u)
    IN  Uniq([i \in 1..Len(es) |-> es[i][2]])

pred(g, v) ==
    LET es == SelectSeq(g.el, LAMBDA e : e[2] = v)
    IN  Uniq([i \in 1..Len(es) |-> es[i][1]])

adj(g, u) ==
    LET es == SelectSeq(g.el, LAMBDA e : e[1] = u \/ e[2] = u)
    IN  Uniq([i \in 1..Len(es) |-> IF es[i][1] = u THEN es[i][2] ELSE es[i][1]])

\* The number of parallel edges from a to b (between a and b when the graph is
\* undirected): add_edge gives them the keys 0, 1, ...
NumKeys(g, a, b) ==
    Len(SelectSeq(g.el, LAMBDA e :
            IF g.directed THEN e = <<a, b>> ELSE {e[1], e[2]} = {a, b}))

\* The edges between a and b as the host reports them with data=False, and
\* with keys=True when the graph is a multigraph.
EdgesBetween(g, a, b) ==
    IF g.multigraph
    THEN [k \in 1..NumKeys(g, a, b) |-> <<a, b, k - 1>>]
    ELSE << <<a, b>> >>

G_out_edges(g, u) ==
    LET s == succ(g, u) IN Flat([i \in 1..Len(s) |-> EdgesBetween(g, u, s[i])])

G_in_edges(g, v) ==
    LET p == pred(g, v) IN Flat([i \in 1..Len(p) |-> EdgesBetween(g, p[i], v)])

G_edges_iter(g, u) ==
    IF g.directed THEN G_out_edges(g, u)
    ELSE LET a == adj(g, u) IN Flat([i \in 1..Len(a) |-> EdgesBetween(g, u, a[i])])

\* G.nbunch_iter(source): every node when source is None, else the nodes of
\* source that are nodes of the graph.
nbunch_iter(g, src) ==
    IF src.none THEN NodeList(g)
    ELSE SelectSeq(src.list, LAMBDA x : x \in Range(NodeList(g)))

-----------------------------------------------------------------------------
\* helper_funcs(G, orientation)

\* ignore_orientation without the test of G.is_directed()
ignore_orientation_any(g, o) == o = "ignore"

ignore_orientation(g, o) == g.directed /\ o = "ignore"

reverse_orientation(g, o) == g.directed /\ o = "reverse"

\* Every edge tagged Direction.Forward, whatever the direction asked for
Tagged_forward(es, d) == [i \in 1..Len(es) |-> Append(es[i], Forward)]

Tagged(es, d) == [i \in 1..Len(es) |-> Append(es[i], d)]

\* out_edges as it would be if 'ignore' left the in-edges out
out_edges_forward_only(g, o, u) ==
    IF ignore_orientation(g, o)
    THEN Tagged(G_out_edges(g, u), Forward)
    ELSE IF reverse_orientation(g, o)
    THEN Tagged(G_in_edges(g, u), Reverse)
    ELSE G_edges_iter(g, u)

out_edges(g, o, u) ==
    IF ignore_orientation(g, o)
    THEN Tagged(G_out_edges(g, u), Forward) \o Tagged(G_in_edges(g, u), Reverse)
    ELSE IF reverse_orientation(g, o)
    THEN Tagged(G_in_edges(g, u), Reverse)
    ELSE G_edges_iter(g, u)

\* key as it would be if the direction were left in the identity
key_with_direction(g, o, edge) ==
    IF g.directed THEN edge
    ELSE << {edge[1], edge[2]} >> \o SubSeq(edge, 3, Len(edge))

\* key as it would be if the multigraph key were left out of the identity
key_without_multikey(g, o, edge) ==
    IF g.directed THEN <<edge[1], edge[2]>> ELSE << {edge[1], edge[2]} >>

\* key as it would be without the frozenset of the undirected case
key_ordered(g, o, edge) ==
    IF g.directed /\ o \in {"ignore", "reverse"} THEN Front(edge) ELSE edge

key(g, o, edge) ==
    IF ignore_orientation(g, o) \/ reverse_orientation(g, o)
    THEN Front(edge)
    ELSE IF g.directed
    THEN edge
    ELSE << {edge[1], edge[2]} >> \o SubSeq(edge, 3, Len(edge))

traversed_tailhead(g, o, edge) ==
    IF (ignore_orientation(g, o) \/ reverse_orientation(g, o))
       /\ Last(edge) = Reverse
    THEN <<edge[2], edge[1]>>
    ELSE <<edge[1], edge[2]>>

-----------------------------------------------------------------------------
\* edge_dfs(G, source, orientation): the generator's frame as a record, and
\* its steps as functions of the frame.

\* The frame when the generator is created: nothing has run yet.  edges is a
\* defaultdict(list): every node has the empty list until it is visited.
Frame0(g) ==
    [pc |-> "start", nodes |-> <<>>, idx |-> 0, stack |-> <<>>,
     current_node |-> 0, visited_edges |-> {}, visited_nodes |-> {},
     edges |-> [x \in Range(NodeList(g)) |-> <<>>], out |-> <<>>, from |-> <<>>]

\* nodes = list(G.nbunch_iter(source)); if not nodes: raise StopIteration.
\* The frame after the statements that come before the for statement.
Prologue(g, src, f) ==
    LET ns == nbunch_iter(g, src)
    IN  [f EXCEPT !.nodes = ns,
                  !.pc = IF ns = <<>> THEN "done" ELSE "for"]

\* The for statement as it would be if the position of the root in the source
\* list, not the root, were put on the stack.
ForNext_index(f) ==
    IF f.idx < Len(f.nodes)
    THEN [f EXCEPT !.idx = f.idx + 1,
                   !.stack = <<f.idx>>,
                   !.pc = "while"]
    ELSE [f EXCEPT !.pc = "done"]

\* The for statement as it would be if the visited sets and the pending lists
\* were made anew for every root.
ForNext_fresh(f) ==
    IF f.idx < Len(f.nodes)
    THEN [f EXCEPT !.idx = f.idx + 1,
                   !.stack = <<f.nodes[f.idx + 1]>>,
                   !.visited_edges = {},
                   !.visited_nodes = {},
                   !.edges = [x \in DOMAIN f.edges |-> <<>>],
                   !.pc = "while"]
    ELSE [f EXCEPT !.pc = "done"]

\* for start_node in nodes: stack = [start_node]
ForNext(f) ==
    IF f.idx < Len(f.nodes)
    THEN [f EXCEPT !.idx = f.idx + 1,
                   !.stack = <<f.nodes[f.idx + 1]>>,
                   !.pc = "while"]
    ELSE [f EXCEPT !.pc = "done"]

\* The push as it would be with the other endpoint: stack.append(edge[0])
PushNode_tail(edge) == edge[1]

\* stack.append(edge[1])
PushNode(edge) == edge[2]

\* The first visit as it would be if an empty pending list, rather than the
\* visited-node set, told that a node has not been fetched yet.
Visit_refetch_when_empty(g, o, f) ==
    LET c == Last(f.stack)
    IN  IF f.edges[c] = <<>>
        THEN [f EXCEPT !.current_node = c,
                       !.edges[c] = Rev(f.edges[c] \o out_edges(g, o, c)),
                       !.visited_nodes = f.visited_nodes \cup {c}]
        ELSE [f EXCEPT !.current_node = c]

\* The first visit as it would be without the reversal of the pending list
Visit_unreversed(g, o, f) ==
    LET c == Last(f.stack)
    IN  IF c \notin f.visited_nodes
        THEN [f EXCEPT !.current_node = c,
                       !.edges[c] = f.edges[c] \o out_edges(g, o, c),
                       !.visited_nodes = f.visited_nodes \cup {c}]
        ELSE [f EXCEPT !.current_node = c]

\* current_node = stack[-1] and the first visit of a node: its candidate edges
\* are appended to its pending list, which is then reversed.
Visit(g, o, f) ==
    LET c == Last(f.stack)
    IN  IF c \notin f.visited_nodes
        THEN [f EXCEPT !.current_node = c,
                       !.edges[c] = Rev(f.edges[c] \o out_edges(g, o, c)),
                       !.visited_nodes = f.visited_nodes \cup {c}]
        ELSE [f EXCEPT !.current_node = c]

\* The iteration as it would be if a yield also marked the candidate that
\* comes next in the pending list.
WhileBody_marks_ahead(g, o, f) ==
    LET v == Visit(g, o, f)
        c == v.current_node
    IN  IF v.edges[c] = <<>>
        THEN [v EXCEPT !.stack = Front(v.stack)]
        ELSE LET edge == Last(v.edges[c])
                 edge_key == key(g, o, edge)
                 ahead == {key(g, o, Last(r)) : r \in {Front(v.edges[c])} \ {<<>>}}
             IN  IF edge_key \notin v.visited_edges
                 THEN [v EXCEPT !.visited_edges = v.visited_edges \cup {edge_key} \cup ahead,
                                !.stack = Append(v.stack, PushNode(edge)),
                                !.out = Append(v.out, edge),
                                !.from = Append(v.from, c),
                                !.pc = "yield"]
                 ELSE [v EXCEPT !.edges[c] = Front(v.edges[c])]

\* The iteration as it would be if the head of a discarded edge were pushed
\* as well.
WhileBody_push_on_skip(g, o, f) ==
    LET v == Visit(g, o, f)
        c == v.current_node
    IN  IF v.edges[c] = <<>>
        THEN [v EXCEPT !.stack = Front(v.stack)]
        ELSE LET edge == Last(v.edges[c])
                 edge_key == key(g, o, edge)
             IN  IF edge_key \notin v.visited_edges
                 THEN [v EXCEPT !.visited_edges = v.visited_edges \cup {edge_key},
                                !.stack = Append(v.stack, PushNode(edge)),
                                !.out = Append(v.out, edge),
                                !.from = Append(v.from, c),
                                !.pc = "yield"]
                 ELSE [v EXCEPT !.edges[c] = Front(v.edges[c]),
                                !.stack = Append(v.stack, PushNode(edge))]

\* One iteration of "while stack", entered with a non-empty stack, up to the
\* yield or the end of the iteration.
WhileBody(g, o, f) ==
    LET v == Visit(g, o, f)
        c == v.current_node
    IN  IF v.edges[c] = <<>>
        THEN [v EXCEPT !.stack = Front(v.stack)]
        ELSE LET edge == Last(v.edges[c])
                 edge_key == key(g, o, edge)
             IN  IF edge_key \notin v.visited_edges
                 THEN [v EXCEPT !.visited_edges = v.visited_edges \cup {edge_key},
                                !.stack = Append(v.stack, PushNode(edge)),
                                !.out = Append(v.out, edge),
                                !.from = Append(v.from, c),
                                !.pc = "yield"]
                 ELSE [v EXCEPT !.edges[c] = Front(v.edges[c])]

\* The consumer asks for the next element: edges[current_node].pop()
Resume(f) ==
    [f EXCEPT !.edges[f.current_node] = Front(f.edges[f.current_node]),
              !.pc = "while"]

\* One step of the generator.
Step(g, src, o, f) ==
    CASE f.pc = "start" -> Prologue(g, src, f)
      [] f.pc = "for" -> ForNext(f)
      [] f.pc = "while" ->
            IF f.stack = <<>> THEN [f EXCEPT !.pc = "for"] ELSE WhileBody(g, o, f)
      [] f.pc = "yield" -> Resume(f)
      [] OTHER -> f

\* The generator run to its end from frame f.
RECURSIVE RunFrom(_, _, _, _)
RunFrom(g, src, o, f) ==
    IF f.pc \in {"done", "error"} THEN f ELSE RunFrom(g, src, o, Step(g, src, o, f))

\* list(edge_dfs(G, source, orientation))
edge_dfs(g, src, o) == RunFrom(g, src, o, Frame0(g)).out

-----------------------------------------------------------------------------
\* The inputs

Nodes == 0..(NumNodes - 1)

Pairs == Nodes \X Nodes

RECURSIVE SeqsUpTo(_, _)
SeqsUpTo(S, n) ==
    IF n = 0 THEN {<<>>}
    ELSE LET shorter == SeqsUpTo(S, n - 1)
         IN  shorter \cup {Append(s, x) : s \in {t \in shorter : Len(t) = n - 1}, x \in S}

\* The endpoints of an edge list, in the order of the add_edge calls
Endpoints(el) == [i \in 1..(2 * Len(el)) |-> el[(i + 1) \div 2][2 - (i % 2)]]

\* Nodes are numbered in the order in which the add_edge calls first name
\* them; the nodes no edge names come last.
InOrder(el) ==
    LET p == Endpoints(el)
    IN  \A i \in 1..Len(p) : p[i] <= Cardinality({p[j] : j \in 1..(i - 1)})

EdgeLists == {el \in SeqsUpTo(Pairs, MaxEdges) : InOrder(el)}

Graphs ==
    UNION {{[directed |-> d, multigraph |-> m, n |-> n, el |-> el] :
                d \in BOOLEAN, m \in BOOLEAN,
                n \in Cardinality(Range(Endpoints(el)))..NumNodes} :
           el \in EdgeLists}

Sources(g) ==
    {[none |-> TRUE, list |-> <<>>]}
    \cup {[none |-> FALSE, list |-> s] : s \in SeqsUpTo(0..(g.n - 1), MaxSrc)}

Orientations == {"original", "reverse", "ignore"}

-----------------------------------------------------------------------------
\* The state machine

Cur ==
    [pc |-> pc, nodes |-> nodes, idx |-> idx, stack |-> stack,
     current_node |-> current_node, visited_edges |-> visited_edges,
     visited_nodes |-> visited_nodes, edges |-> edges, out |-> out, from |-> from]

Becomes(f) ==
    /\ pc' = f.pc
    /\ nodes' = f.nodes
    /\ idx' = f.idx
    /\ stack' = f.stack
    /\ current_node' = f.current_node
    /\ visited_edges' = f.visited_edges
    /\ visited_nodes' = f.visited_nodes
    /\ edges' = f.edges
    /\ out' = f.out
    /\ from' = f.from
    /\ UNCHANGED <<G, source, orientation, other>>

\* The call edge_dfs(G, source, orientation) has made the generator and
\* nothing of its body has run.
Created ==
    /\ pc = Frame0(G).pc
    /\ nodes = Frame0(G).nodes
    /\ idx = Frame0(G).idx
    /\ stack = Frame0(G).stack
    /\ current_node = Frame0(G).current_node
    /\ visited_edges = Frame0(G).visited_edges
    /\ visited_nodes = Frame0(G).visited_nodes
    /\ edges = Frame0(G).edges
    /\ out = Frame0(G).out
    /\ from = Frame0(G).from
    /\ other = Frame0(G)

\* The graph of the docstring's Notes: the edges (0,1), (1,2) and (2,1)
NotesEdges == << <<0, 1>>, <<1, 2>>, <<2, 1>> >>

\* A call on a graph within the bounds, or on the graph of the Notes from
\* source 0, given once or twice.
Init ==
    /\ \/ /\ G \in Graphs
          /\ source \in Sources(G)
       \/ /\ G \in {[directed |-> TRUE, multigraph |-> m, n |-> 3, el |-> NotesEdges] :
                      m \in BOOLEAN}
          /\ source \in {[none |-> FALSE, list |-> s] : s \in {<<0>>, <<0, 0>>}}
    /\ orientation \in Orientations
    /\ Created

\* The first request: the statements before the for statement, with sources.
Start ==
    /\ pc = "start"
    /\ nbunch_iter(G, source) # <<>>
    /\ Becomes(Prologue(G, source, Cur))

\* The first request when there is no source: "raise StopIteration" in the
\* body of a generator ends the iteration where the interpreter lets the
\* exception through, and is turned into a RuntimeError where it does not
\* (PEP 479).
StartEmpty ==
    /\ pc = "start"
    /\ nbunch_iter(G, source) = <<>>
    /\ \E p \in {"done", "error"} :
          Becomes([Prologue(G, source, Cur) EXCEPT !.pc = p])

NextRoot ==
    /\ pc = "for"
    /\ idx < Len(nodes)
    /\ Becomes(ForNext(Cur))

Exhausted ==
    /\ pc = "for"
    /\ idx >= Len(nodes)
    /\ Becomes(ForNext(Cur))

RootDone ==
    /\ pc = "while"
    /\ stack = <<>>
    /\ Becomes(Step(G, source, orientation, Cur))

Backtrack ==
    /\ pc = "while"
    /\ stack # <<>>
    /\ Visit(G, orientation, Cur).edges[Last(stack)] = <<>>
    /\ Becomes(WhileBody(G, orientation, Cur))

Yield ==
    /\ pc = "while"
    /\ stack # <<>>
    /\ LET v == Visit(G, orientation, Cur)
       IN  /\ v.edges[Last(stack)] # <<>>
           /\ key(G, orientation, Last(v.edges[Last(stack)])) \notin visited_edges
    /\ Becomes(WhileBody(G, orientation, Cur))

Skip ==
    /\ pc = "while"
    /\ stack # <<>>
    /\ LET v == Visit(G, orientation, Cur)
       IN  /\ v.edges[Last(stack)] # <<>>
           /\ key(G, orientation, Last(v.edges[Last(stack)])) \in visited_edges
    /\ Becomes(WhileBody(G, orientation, Cur))

Request ==
    /\ pc = "yield"
    /\ Becomes(Resume(Cur))

Next ==
    \/ Start
    \/ StartEmpty
    \/ NextRoot
    \/ Exhausted
    \/ RootDone
    \/ Backtrack
    \/ Yield
    \/ Skip
    \/ Request

Spec == Init /\ [][Next]_vars

\* The call of the docstring's examples: nodes = [0, 1, 2, 3],
\* edges = [(0, 1), (1, 0), (1, 0), (2, 1), (3, 1)], each graph class built
\* from edges, source = nodes.
DocEdges == << <<0, 1>>, <<1, 0>>, <<1, 0>>, <<2, 1>>, <<3, 1>> >>

DocNodes == <<0, 1, 2, 3>>

\* The scenarios: the four graph classes built from DocEdges with source =
\* DocNodes, and the empty graph of each class with no source given.
InitDoc ==
    /\ \E d \in BOOLEAN, m \in BOOLEAN :
          \/ /\ G = [directed |-> d, multigraph |-> m, n |-> Len(DocNodes), el |-> DocEdges]
             /\ source = [none |-> FALSE, list |-> DocNodes]
          \/ /\ G = [directed |-> d, multigraph |-> m, n |-> 0, el |-> <<>>]
             /\ source = [none |-> TRUE, list |-> <<>>]
    /\ orientation \in Orientations
    /\ Created

SpecDoc == InitDoc /\ [][Next]_vars

-----------------------------------------------------------------------------
\* Two calls with the same arguments, consumed in turn

\* The generator run from frame f up to its next yield or its end
RECURSIVE Advance(_, _, _, _)
Advance(g, src, o, f) ==
    IF f.pc \in {"yield", "done", "error"} THEN f
    ELSE Advance(g, src, o, Step(g, src, o, f))

\* next(generator): the body runs from where it stands to the next yield
next(g, src, o, f) == Advance(g, src, o, Step(g, src, o, f))

\* The locals as they would be if the visited-edge set were one object that
\* all calls use.
Locals_shared(mine, theirs) ==
    [mine EXCEPT !.visited_edges = mine.visited_edges \cup theirs.visited_edges]

\* visited_edges = set(); visited_nodes = set(); edges = {}: every call binds
\* objects of its own, so what a call reads is what it has written itself.
Locals(mine, theirs) == mine

\* The scenarios of two calls: the graph of the Notes and the graph of the
\* Examples in each graph class, with no source given, from node 0 and from
\* nodes 1 and 0, and the empty graph.
InitTwo ==
    /\ \E d \in BOOLEAN, m \in BOOLEAN :
          \/ /\ \/ G = [directed |-> d, multigraph |-> m, n |-> Len(DocNodes), el |-> DocEdges]
                \/ G = [directed |-> d, multigraph |-> m, n |-> 3, el |-> NotesEdges]
             /\ source \in {[none |-> TRUE, list |-> <<>>],
                            [none |-> FALSE, list |-> <<0>>],
                            [none |-> FALSE, list |-> <<1, 0>>]}
          \/ /\ G = [directed |-> d, multigraph |-> m, n |-> 0, el |-> <<>>]
             /\ source = [none |-> TRUE, list |-> <<>>]
    /\ orientation \in Orientations
    /\ Created

\* The consumer of the second call asks for its next element.
OtherRequest ==
    /\ other.pc \in {"start", "yield"}
    /\ LET r == next(G, source, orientation, Locals(other, Cur))
       IN  IF other.pc = "start" /\ nbunch_iter(G, source) = <<>>
           THEN \E p \in {"done", "error"} : other' = [r EXCEPT !.pc = p]
           ELSE other' = r
    /\ UNCHANGED <<G, source, orientation, pc, nodes, idx, stack, current_node,
                   visited_edges, visited_nodes, edges, out, from>>

NextTwo ==
    \/ Next
    \/ OtherRequest

SpecTwo == InitTwo /\ [][NextTwo]_vars

-----------------------------------------------------------------------------
\* What the claims speak of

\* The key of a yielded edge: the host's key in a multigraph, 0 otherwise.
KeyOf(g, e) == IF g.multigraph THEN e[3] ELSE 0

\* The stored edge a yielded edge stands for: its endpoints (as a set when
\* the graph is undirected) and its key, whatever the traversal direction.
StoredId(g, e) ==
    IF g.directed THEN <<e[1], e[2], KeyOf(g, e)>>
    ELSE <<{e[1], e[2]}, KeyOf(g, e)>>

\* The i-th add_edge call of a graph as a stored edge: in a multigraph its key
\* is the number of earlier parallel calls, in a simple graph the calls for
\* the same endpoints are one edge.
Parallel(g, a, b) == IF g.directed THEN a = b ELSE {a[1], a[2]} = {b[1], b[2]}

AddedId(g, i) ==
    LET k == IF g.multigraph
             THEN Cardinality({j \in 1..(i - 1) : Parallel(g, g.el[j], g.el[i])})
             ELSE 0
    IN  IF g.directed THEN <<g.el[i][1], g.el[i][2], k>>
        ELSE <<{g.el[i][1], g.el[i][2]}, k>>

AllEdgeIds(g) == {AddedId(g, i) : i \in 1..Len(g.el)}

YieldedIds == {StoredId(G, out[i]) : i \in 1..Len(out)}

\* C1: in one call no edge is yielded twice: the stored edges of the yielded
\* edges are pairwise distinct, for every graph kind, source list and
\* orientation.
C1_NoEdgeTwice ==
    \A i, j \in 1..Len(out) : i # j => StoredId(G, out[i]) # StoredId(G, out[j])

\* C1 witness: under 'ignore' the engine stands before the Reverse copy of a
\* parallel edge that it has already yielded with tag Forward.
C1_Witness ==
    /\ ignore_orientation(G, orientation) /\ G.multigraph
    /\ pc = "while" /\ stack # <<>>
    /\ Last(stack) \in visited_nodes
    /\ edges[Last(stack)] # <<>>
    /\ LET e == Last(edges[Last(stack)])
       IN  /\ Last(e) = Reverse
           /\ e[3] = 1
           /\ \E i \in 1..Len(out) : out[i] = Append(Front(e), Forward)

\* C2: with source omitted, a traversal run to exhaustion yields every edge
\* of the graph exactly once, for every graph kind and orientation.
C2_AllEdgesOnce ==
    (source.none /\ pc = "done") =>
        /\ YieldedIds = AllEdgeIds(G)
        /\ Len(out) = Cardinality(AllEdgeIds(G))

\* C2 witness: a directed graph with two components and an isolated node,
\* traversed to exhaustion under 'reverse' with no source.
C2_Witness ==
    /\ source.none /\ pc = "done"
    /\ G.directed /\ orientation = "reverse"
    /\ G.el = << <<0, 0>>, <<1, 1>> >> /\ G.n = 3
    /\ Len(out) = 2

\* The nodes that S reaches along directed edges, S included
RECURSIVE ReachFwd(_, _)
ReachFwd(g, S) ==
    LET T == S \cup {e[2] : e \in {x \in Range(g.el) : x[1] \in S}}
    IN  IF T = S THEN S ELSE ReachFwd(g, T)

\* C3: under 'original' on a directed graph with an explicit source list, the
\* edges yielded by an exhausted traversal are exactly the stored edges whose
\* tail is reachable from a source along directed edges, each once.
C3_OriginalReach ==
    (G.directed /\ orientation = "original" /\ ~source.none /\ pc = "done") =>
        /\ YieldedIds = {id \in AllEdgeIds(G) : id[1] \in ReachFwd(G, Range(nodes))}
        /\ Len(out) = Cardinality(YieldedIds)

\* C3 witness: the graph (0,1), (1,2), (2,1) from source 0: the edge (2,1) is
\* yielded although node 1 was visited before it is reached.
C3_Witness ==
    /\ G.directed /\ ~G.multigraph /\ orientation = "original" /\ pc = "done"
    /\ G.el = << <<0, 1>>, <<1, 2>>, <<2, 1>> >>
    /\ source = [none |-> FALSE, list |-> <<0>>]
    /\ out = << <<0, 1>>, <<1, 2>>, <<2, 1>> >>

\* The nodes joined to S by edges taken in either direction, S included
RECURSIVE ReachWeak(_, _)
ReachWeak(g, S) ==
    LET T == S \cup {e[2] : e \in {x \in Range(g.el) : x[1] \in S}}
               \cup {e[1] : e \in {x \in Range(g.el) : x[2] \in S}}
    IN  IF T = S THEN S ELSE ReachWeak(g, T)

\* C4: under 'ignore' on a directed graph with an explicit source list, an
\* exhausted traversal yields exactly the edges of the weakly connected
\* components that contain the sources, each once.
C4_IgnoreWeakComponents ==
    (G.directed /\ orientation = "ignore" /\ ~source.none /\ pc = "done") =>
        /\ YieldedIds = {id \in AllEdgeIds(G) : id[1] \in ReachWeak(G, Range(nodes))}
        /\ Len(out) = Cardinality(YieldedIds)

\* The nodes with a directed path to a node of S, S included
RECURSIVE ReachBwd(_, _)
ReachBwd(g, S) ==
    LET T == S \cup {e[1] : e \in {x \in Range(g.el) : x[2] \in S}}
    IN  IF T = S THEN S ELSE ReachBwd(g, T)

\* C5: under 'reverse' on a directed graph with an explicit source list, an
\* exhausted traversal yields exactly the stored edges whose head has a
\* directed path to a source, each once and each tagged Reverse.
C5_ReverseReach ==
    (G.directed /\ orientation = "reverse" /\ ~source.none /\ pc = "done") =>
        /\ YieldedIds = {id \in AllEdgeIds(G) : id[2] \in ReachBwd(G, Range(nodes))}
        /\ Len(out) = Cardinality(YieldedIds)
        /\ \A i \in 1..Len(out) : Last(out[i]) = Reverse

\* C6: when the resolved source list is empty the consumer sees normal
\* exhaustion with zero edges: the first request ends the iteration and no
\* error is raised.
C6_EmptySourcesExhaust ==
    (pc # "start" /\ nodes = <<>>) => (pc = "done" /\ out = <<>>)

\* The number of components of a yielded edge
Shape(g, o) ==
    2 + (IF g.multigraph THEN 1 ELSE 0)
      + (IF ignore_orientation(g, o) \/ reverse_orientation(g, o) THEN 1 ELSE 0)

\* C7: every yielded edge is an edge of the graph, on a directed graph in
\* stored (tail, head) order; under 'ignore' its tag is Forward when the
\* explored node is its stored tail and it was taken from that node's
\* out-edges, Reverse when the explored node is its stored head and it was
\* taken from the in-edges; under 'reverse' every tag is Reverse; on an
\* undirected graph the first component is the explored node.
C7_EdgesAndTags ==
    /\ \A i \in 1..Len(out) :
          LET e == out[i]
              c == from[i]
          IN  /\ Len(e) = Shape(G, orientation)
              /\ StoredId(G, e) \in AllEdgeIds(G)
              /\ G.directed => <<e[1], e[2]>> \in Range(G.el)
              /\ (G.directed /\ orientation = "ignore") =>
                    /\ Last(e) \in {Forward, Reverse}
                    /\ Last(e) = Forward => c = e[1]
                    /\ Last(e) = Reverse => c = e[2]
              /\ (G.directed /\ orientation = "reverse") =>
                    (Last(e) = Reverse /\ c = e[2])
              /\ ~G.directed => e[1] = c
    /\ (pc = "yield" /\ G.directed /\ orientation = "ignore") =>
          LET c == current_node
              nout == Len(G_out_edges(G, c))
              pos == nout + Len(G_in_edges(G, c)) - Len(edges[c]) + 1
              e == Last(out)
          IN  /\ from[Len(out)] = c
              /\ pos >= 1
              /\ Last(e) = Forward <=> pos <= nout
              /\ pos <= nout => Front(e) = G_out_edges(G, c)[pos]
              /\ pos > nout => Front(e) = G_in_edges(G, c)[pos - nout]

\* C7 witness: under 'ignore' the engine has yielded one edge Forward and
\* is suspended at the yield of an edge taken from the in-edges.
C7_Witness ==
    /\ G.directed /\ orientation = "ignore" /\ pc = "yield"
    /\ Len(out) >= 2
    /\ Last(out[1]) = Forward
    /\ Last(Last(out)) = Reverse
    /\ current_node = Last(out)[2]
    /\ Last(out)[1] # Last(out)[2]

\* C8: on an undirected graph the orientation has no effect: the sequence
\* yielded under 'reverse' or 'ignore' is, element by element, the sequence
\* yielded under 'original', and no yielded edge carries a direction tag.
C8_UndirectedOrientation ==
    (~G.directed /\ pc = "done") =>
        /\ out = edge_dfs(G, source, "original")
        /\ \A i \in 1..Len(out) : Len(out[i]) = IF G.multigraph THEN 3 ELSE 2

\* C8 witness: an undirected graph traversed to exhaustion under 'ignore',
\* with two edges yielded.
C8_Witness ==
    /\ ~G.directed /\ orientation = "ignore" /\ pc = "done"
    /\ Len(out) = 2

\* C9: the six sequences of the docstring's examples.
C9_DocExamples ==
    (pc = "done" /\ G.el = DocEdges /\ source.list = DocNodes) =>
        /\ (~G.directed /\ ~G.multigraph /\ orientation = "original") =>
              out = << <<0, 1>>, <<1, 2>>, <<1, 3>> >>
        /\ (G.directed /\ ~G.multigraph /\ orientation = "original") =>
              out = << <<0, 1>>, <<1, 0>>, <<2, 1>>, <<3, 1>> >>
        /\ (~G.directed /\ G.multigraph /\ orientation = "original") =>
              out = << <<0, 1, 0>>, <<1, 0, 1>>, <<0, 1, 2>>, <<1, 2, 0>>, <<1, 3, 0>> >>
        /\ (G.directed /\ G.multigraph /\ orientation = "original") =>
              out = << <<0, 1, 0>>, <<1, 0, 0>>, <<1, 0, 1>>, <<2, 1, 0>>, <<3, 1, 0>> >>
        /\ (G.directed /\ ~G.multigraph /\ orientation = "ignore") =>
              out = << <<0, 1, Forward>>, <<1, 0, Forward>>,
                       <<2, 1, Reverse>>, <<3, 1, Reverse>> >>
        /\ (G.directed /\ G.multigraph /\ orientation = "ignore") =>
              out = << <<0, 1, 0, Forward>>, <<1, 0, 0, Forward>>, <<1, 0, 1, Reverse>>,
                       <<2, 1, 0, Reverse>>, <<3, 1, 0, Reverse>> >>

\* C9 witness: the directed multigraph of the examples traversed to
\* exhaustion under 'ignore'.
C9_Witness ==
    /\ pc = "done" /\ G.el = DocEdges /\ source.list = DocNodes
    /\ G.directed /\ G.multigraph /\ orientation = "ignore"
    /\ Len(out) = 5

\* The naive recursive edge DFS: for each candidate edge of node u in the
\* host's enumeration order, skip it if it is visited, else mark it, yield it
\* and recurse into its head.  acc is [seen, out].
RECURSIVE NaiveNode(_, _, _)
RECURSIVE NaiveEdges(_, _, _)
NaiveNode(g, u, acc) == NaiveEdges(g, G_edges_iter(g, u), acc)

NaiveEdges(g, es, acc) ==
    IF es = <<>> THEN acc
    ELSE LET e == Head(es)
         IN  IF StoredId(g, e) \in acc.seen
             THEN NaiveEdges(g, Tail(es), acc)
             ELSE NaiveEdges(g, Tail(es),
                     NaiveNode(g, e[2], [seen |-> acc.seen \cup {StoredId(g, e)},
                                         out |-> Append(acc.out, e)]))

RECURSIVE NaiveRoots(_, _, _)
NaiveRoots(g, roots, acc) ==
    IF roots = <<>> THEN acc
    ELSE NaiveRoots(g, Tail(roots), NaiveNode(g, Head(roots), acc))

NaiveDfs(g, roots) == NaiveRoots(g, roots, [seen |-> {}, out |-> <<>>]).out

\* C10: under 'original' on a directed graph, and on any undirected graph,
\* the sequence yielded by the stack machine is the sequence of the naive
\* recursive edge DFS over the same roots.
C10_MatchesNaiveDfs ==
    (pc = "done" /\ (~G.directed \/ orientation = "original")) =>
        out = NaiveDfs(G, nodes)

\* C10 witness: an undirected multigraph with two parallel edges: the second
\* is yielded from node 1, entered while node 0 is still being explored.
C10_Witness ==
    /\ pc = "done" /\ ~G.directed /\ G.multigraph
    /\ out = << <<0, 1, 0>>, <<1, 0, 1>> >>

\* C11: whenever the engine yields an edge, the node it pushes is the
\* traversed head of that edge as traversed_tailhead gives it: edge[1] for an
\* untagged or Forward edge, edge[0] for a Reverse edge.
C11_PushesTraversedHead ==
    pc = "yield" => Last(stack) = traversed_tailhead(G, orientation, Last(out))[2]

\* C12: a consumer that keeps requesting reaches exhaustion: the generator
\* is exhausted or can take another step, and it never yields more edges
\* than the graph has.
C12_ReachesExhaustion ==
    /\ pc = "done" \/ ENABLED Next
    /\ Len(out) <= Cardinality(AllEdgeIds(G))

\* The stored tail and head of a stored edge of a directed graph
TailOf(id) == id[1]

HeadOf(id) == id[2]

\* C13: under 'ignore' on a directed graph, at exhaustion the pending list of
\* every node-visited node is empty and every edge incident to such a node
\* has been yielded exactly once, tagged Forward when it was yielded from its
\* stored tail and Reverse when it was yielded from its stored head.
C13_IgnoreIncidentEdges ==
    (G.directed /\ orientation = "ignore" /\ pc = "done") =>
        \A v \in visited_nodes :
            /\ edges[v] = <<>>
            /\ \A id \in {x \in AllEdgeIds(G) : v \in {TailOf(x), HeadOf(x)}} :
                  /\ Cardinality({i \in 1..Len(out) : StoredId(G, out[i]) = id}) = 1
                  /\ \A i \in 1..Len(out) :
                        StoredId(G, out[i]) = id =>
                            \/ Last(out[i]) = Forward /\ from[i] = TailOf(id)
                            \/ Last(out[i]) = Reverse /\ from[i] = HeadOf(id)

\* C13 witness: under 'ignore' an exhausted traversal from one source has
\* yielded an out-edge Forward and an in-edge Reverse of the visited nodes.
C13_Witness ==
    /\ G.directed /\ orientation = "ignore" /\ pc = "done" /\ ~source.none
    /\ \E i, j \in 1..Len(out) : Last(out[i]) = Forward /\ Last(out[j]) = Reverse
    /\ Cardinality(visited_nodes) >= 2

\* The candidate list of node x as the first visit stores it
Fetched(x) == Rev(out_edges(G, orientation, x))

\* C14: within one call the candidate edges of a node are fetched and stored
\* as its pending list at most once, on the first time the node is at the top
\* of the stack, however often it is pushed or comes again as a root; from
\* then on the node is node-visited for good and its pending list only loses
\* its last element.
C14_FetchedOnce ==
    [][/\ visited_nodes \subseteq visited_nodes'
       /\ \A x \in DOMAIN edges :
             /\ x \notin visited_nodes => edges[x] = <<>>
             /\ \/ edges'[x] = edges[x] /\ (x \in visited_nodes' => x \in visited_nodes)
                \/ /\ x \in visited_nodes
                   /\ edges[x] # <<>>
                   /\ edges'[x] = Front(edges[x])
                \/ /\ x \notin visited_nodes
                   /\ x \in visited_nodes'
                   /\ stack # <<>>
                   /\ x = Last(stack)
                   /\ \/ edges'[x] = Fetched(x)
                      \/ Fetched(x) # <<>> /\ edges'[x] = Front(Fetched(x))]_vars

\* A later root that an earlier root's traversal has pushed from another node
\* and explored is on the stack again, and nothing is fetched for it.
C14_Witness ==
    /\ pc = "while"
    /\ idx >= 2
    /\ stack = <<nodes[idx]>>
    /\ nodes[idx] \in visited_nodes
    /\ \E i, j \in 1..Len(out) :
          /\ PushNode(out[i]) = nodes[idx] /\ from[i] # nodes[idx]
          /\ from[j] = nodes[idx]

\* The identities of the edges yielded up to and including yield number n
KeysOf(o, n) == {key(G, orientation, o[i]) : i \in 1..n}

\* C15: each time the engine has yielded an edge and waits for the consumer,
\* the visited-edge set is exactly the set of identities of the edges yielded
\* so far, one identity for each yield: the step that yields adds the identity
\* of the yielded edge and no other; and no step takes an identity out of the
\* visited-edge set.
C15_VisitedIsYielded ==
    [][/\ visited_edges \subseteq visited_edges'
       /\ pc' = "yield" =>
             /\ Len(out') = Len(out) + 1
             /\ visited_edges' = visited_edges \cup {key(G, orientation, Last(out'))}
             /\ visited_edges' = KeysOf(out', Len(out'))
             /\ Cardinality(visited_edges') = Len(out')]_vars

\* The engine waits after its second yield with further candidates of the
\* current node pending behind the one just yielded.
C15_Witness ==
    /\ pc = "yield"
    /\ Len(out) >= 2
    /\ Len(edges[current_node]) >= 2
    /\ Cardinality(visited_edges) = Len(out)
    /\ Cardinality(AllEdgeIds(G)) > Len(out)

\* The yielded edges as (tail, head) pairs in the direction of their traversal
TraversedPairs == {traversed_tailhead(G, orientation, out[i]) : i \in 1..Len(out)}

\* The nodes that walks along the pairs of E from the nodes of S arrive at
RECURSIVE ReachAlong(_, _)
ReachAlong(E, S) ==
    LET T == S \cup {e[2] : e \in {x \in E : x[1] \in S}}
    IN  IF T = S THEN S ELSE ReachAlong(E, T)

\* C16: in every reachable state every node on the stack is the current root
\* or a node that a walk from a requested source along already-yielded edges,
\* each taken in the direction of its traversal, arrives at.
C16_StackReachable ==
    \A k \in 1..Len(stack) :
        \/ idx >= 1 /\ stack[k] = nodes[idx]
        \/ stack[k] \in ReachAlong(TraversedPairs, Range(nodes))

\* From an explicit source the stack has grown to three nodes, the upper two
\* of which are not sources.
C16_Witness ==
    /\ ~source.none
    /\ Len(stack) >= 3
    /\ stack[2] \notin Range(nodes)
    /\ stack[3] \notin Range(nodes) \cup {stack[2]}
    /\ Len(out) >= 2

\* The candidate edges of node x in the order the claim gives: the host's
\* order, and on a directed graph under 'ignore' the out-edges, tagged
\* Forward, before the in-edges, tagged Reverse, under 'reverse' the in-edges.
Enumerated(x) ==
    IF G.directed /\ orientation = "ignore"
    THEN [i \in 1..Len(G_out_edges(G, x)) |-> Append(G_out_edges(G, x)[i], Forward)]
         \o [i \in 1..Len(G_in_edges(G, x)) |-> Append(G_in_edges(G, x)[i], Reverse)]
    ELSE IF G.directed /\ orientation = "reverse"
    THEN [i \in 1..Len(G_in_edges(G, x)) |-> Append(G_in_edges(G, x)[i], Reverse)]
    ELSE G_edges_iter(G, x)

\* The places of edge e in sequence s
Places(s, e) == {k \in 1..Len(s) : s[k] = e}

\* C17: the candidate edges of a node are decided in the order of their
\* enumeration: what is pending for a node-visited node is the rest of its
\* enumeration, the next candidate last, and of two edges yielded from the
\* same node the one yielded first has the earlier place in the enumeration.
C17_DecidedInOrder ==
    /\ \A x \in visited_nodes :
          LET en == Enumerated(x)
          IN  /\ Len(edges[x]) <= Len(en)
              /\ Rev(edges[x]) = SubSeq(en, Len(en) - Len(edges[x]) + 1, Len(en))
    /\ \A i, j \in 1..Len(out) :
          (i < j /\ from[i] = from[j]) =>
              \E p \in Places(Enumerated(from[i]), out[i]) :
                  \E q \in Places(Enumerated(from[j]), out[j]) : p < q

\* Under 'ignore' on a directed graph a node has yielded one of its out-edges
\* and later one of its in-edges, and another node was explored in between.
C17_Witness ==
    /\ G.directed /\ orientation = "ignore"
    /\ \E i, j \in 1..Len(out) :
          /\ i < j /\ from[i] = from[j]
          /\ Last(out[i]) = Forward /\ Last(out[j]) = Reverse
          /\ Cardinality(visited_nodes) >= 2

\* Sequence s is the beginning of sequence t
IsPrefix(s, t) == Len(s) <= Len(t) /\ s = SubSeq(t, 1, Len(s))

\* The frame of a traversal consumed alone, after n requests
RECURSIVE AfterRequests(_)
AfterRequests(n) ==
    IF n = 0 THEN Frame0(G)
    ELSE next(G, source, orientation, AfterRequests(n - 1))

Doubled(s, k) == SubSeq(s, 1, k) \o SubSeq(s, k, Len(s))

\* The yielded sequence of a call with the roots of list s
FromRoots(s) == edge_dfs(G, [none |-> FALSE, list |-> s], orientation)

\* C19: a root that is node-visited already when the for statement takes it
\* has nothing pending; it is pushed and popped, and nothing is yielded. So
\* the yielded sequence of an exhausted call is also the sequence of the call
\* with any of its roots given twice, or with a node it has visited given as
\* one more root at the end.
C19_VisitedRootYieldsNothing ==
    [][/\ (pc = "for" /\ pc' = "while" /\ nodes[idx'] \in visited_nodes) =>
             /\ stack' = <<nodes[idx']>>
             /\ edges[nodes[idx']] = <<>>
             /\ out' = out
       /\ (pc = "while" /\ Len(stack) = 1 /\ stack[1] \in visited_nodes
              /\ edges[stack[1]] = <<>>) =>
             /\ stack' = <<>>
             /\ out' = out
             /\ visited_nodes' = visited_nodes
       /\ (pc # "done" /\ pc' = "done") =>
             /\ \A x \in visited_nodes' : FromRoots(Append(nodes', x)) = out'
             /\ \A k \in 1..Len(nodes') : FromRoots(Doubled(nodes', k)) = out']_vars

\* An exhausted call with several roots has yielded only in the turn of its
\* first root, from which it came to its second root.
C19_Witness ==
    /\ pc = "done"
    /\ Len(nodes) >= 2
    /\ nodes[2] # nodes[1]
    /\ \E i \in 1..Len(out) : from[i] = nodes[1] /\ PushNode(out[i]) = nodes[2]
    /\ \E i \in 1..Len(out) : from[i] = nodes[2]
    /\ out = FromRoots(<<nodes[1]>>)

\* The pending list that the iteration about to run works on: the stored one
\* of a node-visited node, the freshly fetched one otherwise
PendingAtTop ==
    IF Last(stack) \in visited_nodes THEN edges[Last(stack)] ELSE Fetched(Last(stack))

\* C20: a step that makes the stack longer pushes one node: either the root,
\* onto the empty stack, with no yield, or the node pushed together with
\* exactly one yield. So the stack is never longer than 1 plus the number of
\* edges yielded so far. An iteration whose candidate has a visited identity
\* removes the candidate and leaves the stack and the yielded edges alone.
C20_PushOnlyWithYield ==
    [][/\ Len(stack') <= 1 + Len(out')
       /\ Len(stack') > Len(stack) =>
             \/ /\ pc = "for" /\ stack = <<>>
                /\ stack' = <<nodes[idx']>>
                /\ out' = out
             \/ /\ pc = "while" /\ pc' = "yield"
                /\ Front(stack') = stack
                /\ Front(out') = out
       /\ (pc = "while" /\ stack # <<>> /\ PendingAtTop # <<>>
              /\ key(G, orientation, Last(PendingAtTop)) \in visited_edges) =>
             /\ stack' = stack
             /\ out' = out
             /\ edges'[Last(stack)] = Front(PendingAtTop)]_vars

\* Candidates of a node have been discarded and the stack, two nodes high, is
\* shorter than 1 plus the number of yields.
C20_Witness ==
    /\ pc = "while"
    /\ Len(stack) = 2
    /\ Len(out) >= 2
    /\ \E x \in visited_nodes :
          Len(Enumerated(x)) - Len(edges[x]) > Cardinality({i \in 1..Len(out) : from[i] = x})

====
